---- MODULE Spec2Model ----
(***************************************************************************)
(* Reaction Duel: the match record of src/lib/duelStore.ts (CAS variant),  *)
(* the request handlers that read and write it through the shared store,   *)
(* and the payout route with its lock.  One match id is modelled; every    *)
(* Redis call of a handler is one step, the synchronous code between two   *)
(* calls belongs to the step that follows the earlier call.                *)
(***************************************************************************)
EXTENDS Integers, Sequences, FiniteSets, TLC

VARIABLES
    store,      \* the JSON value under duel:<ID>, or NoDuel
    clock,      \* Date.now(), in milliseconds
    lockUntil,  \* expiry instant of duel:payout_lock:<ID>, NoVal when absent
    postedKey,  \* TRUE when duel:solarena_posted:<ID> exists
    openZ,      \* duels:open, as the set of ids (here: whether the id is in it)
    lists,      \* duels:history:<pk> and duels:recent, each a sequence of ids
    transfers,  \* transfers the treasury has broadcast, in order
    h,          \* per handler: the request it serves and where it stands
    nOps,       \* requests accepted so far
    nTicks      \* one-millisecond clock steps taken so far

vars == <<store, clock, lockUntil, postedKey, openZ, lists, transfers,
          h, nOps, nTicks>>

(* ------------------------------ bounds -------------------------------- *)

MaxOps == 2
MaxTicks == 1

\* Two request handlers run at a time.
Procs == {1, 2}

(* --------------------------- program values --------------------------- *)

NoVal == -1
NoDuel == [none |-> TRUE]

countdownMs == 3000
randomDelayMin == 900
randomDelaySpan == 1300
readyWindowMs == 30000
finalizeWindowMs == 5000
minReactionMs == 120
lockTtlMs == 60000
defaultMaxRetries == 8
clickMaxRetries == 10
historyKeep == 9
recentKeep == 49
bpsDenominator == 10000
maxListLimit == 50

DuelId == "D1"
Alice == "alice"
Bob == "bob"
Eve == "eve"
Accounts == {Alice, Bob, Eve}

\* Math.floor(Math.random() * 1300) ranges over 0..1299; the ends are taken.
RandomDelays == {randomDelayMin, randomDelayMin + randomDelaySpan - 1}

Stakes == {100}
Fees == {300}

Max(a, b) == IF a >= b THEN a ELSE b

Min(a, b) == IF a <= b THEN a ELSE b

(* ----------------------------- Duel record ---------------------------- *)

feeFor(stake, feeBps) == (stake * feeBps) \div bpsDenominator

\* Variant: the net stake is not clamped at zero.
netStakeUnclamped(stake, feeBps) == stake - feeFor(stake, feeBps)

netStakeFor(stake, feeBps) == Max(0, stake - feeFor(stake, feeBps))

isFinishedPhase(phase) == phase = "finished"

NewDuel(createdBy, stake, feeBps, paySigA, t) ==
    [ stakeLamports |-> stake, feeBps |-> feeBps,
      createdBy |-> createdBy, joinedBy |-> "",
      updatedAt |-> t, phase |-> "lobby",
      revealAt |-> NoVal, goAt |-> NoVal,
      clickA |-> NoVal, clickB |-> NoVal,
      falseA |-> FALSE, falseB |-> FALSE,
      winner |-> "",
      paidA |-> TRUE, paidB |-> FALSE,
      paySigA |-> paySigA, paySigB |-> "",
      payoutSig |-> NoVal, finishedAt |-> NoVal,
      readyA |-> FALSE, readyB |-> FALSE, readyDeadlineAt |-> NoVal,
      firstClickAt |-> NoVal, finalizeAt |-> NoVal,
      historyRecorded |-> FALSE ]

\* JavaScript truthiness of an optional timestamp: undefined and 0 are falsy.
Truthy(x) == x /= NoVal /\ x /= 0

\* Variant: the round starts without the countdown window.
startNowNoCountdown(duel, t, randomDelay) ==
    [ duel EXCEPT
        !.revealAt = t,
        !.goAt = t + randomDelay,
        !.phase = "countdown",
        !.clickA = NoVal, !.clickB = NoVal,
        !.falseA = FALSE, !.falseB = FALSE,
        !.winner = "",
        !.finishedAt = NoVal, !.firstClickAt = NoVal, !.finalizeAt = NoVal,
        !.historyRecorded = FALSE ]

startNow(duel, t, randomDelay) ==
    [ duel EXCEPT
        !.revealAt = t + countdownMs,
        !.goAt = t + countdownMs + randomDelay,
        !.phase = "countdown",
        !.clickA = NoVal, !.clickB = NoVal,
        !.falseA = FALSE, !.falseB = FALSE,
        !.winner = "",
        !.finishedAt = NoVal, !.firstClickAt = NoVal, !.finalizeAt = NoVal,
        !.historyRecorded = FALSE ]

advancePhase(duel, t) ==
    IF isFinishedPhase(duel.phase) THEN duel
    ELSE IF ~Truthy(duel.revealAt) \/ ~Truthy(duel.goAt) THEN duel
    ELSE LET d1 == IF duel.phase = "countdown" /\ t >= duel.revealAt
                   THEN [duel EXCEPT !.phase = "waiting_random"] ELSE duel
         IN  IF d1.phase \in {"countdown", "waiting_random"} /\ t >= d1.goAt
             THEN [d1 EXCEPT !.phase = "go"] ELSE d1

\* The ready room arms the deadline even when it does not start the round.
readyRoomOpen(duel) ==
    /\ ~isFinishedPhase(duel.phase)
    /\ duel.phase = "lobby"
    /\ duel.joinedBy /= ""
    /\ duel.paidA /\ duel.paidB

\* Variant: the round starts only when both players are ready.
startOnlyWhenBothReady(duel, t, randomDelay) ==
    IF ~readyRoomOpen(duel) THEN duel
    ELSE LET d1 == [duel EXCEPT !.readyDeadlineAt =
                        IF @ = NoVal THEN t + readyWindowMs ELSE @]
         IN  IF d1.readyA /\ d1.readyB THEN startNow(d1, t, randomDelay) ELSE d1

maybeStartFromReadyRoom(duel, t, randomDelay) ==
    IF ~readyRoomOpen(duel) THEN duel
    ELSE LET d1 == [duel EXCEPT !.readyDeadlineAt =
                        IF @ = NoVal THEN t + readyWindowMs ELSE @]
             bothReady == d1.readyA /\ d1.readyB
             deadlineHit == t >= d1.readyDeadlineAt
         IN  IF bothReady \/ deadlineHit THEN startNow(d1, t, randomDelay) ELSE d1

\* The value maybeStartFromReadyRoom returns: true only when the round started.
startedFromReadyRoom(duel, t) ==
    /\ readyRoomOpen(duel)
    /\ LET dl == IF duel.readyDeadlineAt = NoVal THEN t + readyWindowMs
                 ELSE duel.readyDeadlineAt
       IN  (duel.readyA /\ duel.readyB) \/ t >= dl

\* Variant: an overdue round is never forfeited.
finalizeNever(duel, t) == duel

\* Variant: the forfeit names the winner and leaves the phase as it was.
finalizeWinnerOnly(duel, t) ==
    IF isFinishedPhase(duel.phase) THEN duel
    ELSE IF ~Truthy(duel.finalizeAt) THEN duel
    ELSE IF t < duel.finalizeAt THEN duel
    ELSE IF duel.clickA /= NoVal /\ duel.clickB = NoVal
         THEN [duel EXCEPT !.winner = "A"]
    ELSE IF duel.clickB /= NoVal /\ duel.clickA = NoVal
         THEN [duel EXCEPT !.winner = "B"]
    ELSE duel

\* Variant: the deadline instant itself does not count as overdue.
finalizeIfStrictlyOverdue(duel, t) ==
    IF isFinishedPhase(duel.phase) THEN duel
    ELSE IF ~Truthy(duel.finalizeAt) THEN duel
    ELSE IF t <= duel.finalizeAt THEN duel
    ELSE IF duel.clickA /= NoVal /\ duel.clickB = NoVal
         THEN [duel EXCEPT !.winner = "A", !.phase = "finished",
                           !.finishedAt = IF @ = NoVal THEN t ELSE @]
    ELSE IF duel.clickB /= NoVal /\ duel.clickA = NoVal
         THEN [duel EXCEPT !.winner = "B", !.phase = "finished",
                           !.finishedAt = IF @ = NoVal THEN t ELSE @]
    ELSE duel

finalizeIfOverdueInternal(duel, t) ==
    IF isFinishedPhase(duel.phase) THEN duel
    ELSE IF ~Truthy(duel.finalizeAt) THEN duel
    ELSE IF t < duel.finalizeAt THEN duel
    ELSE IF duel.clickA /= NoVal /\ duel.clickB /= NoVal THEN duel
    ELSE IF duel.clickA /= NoVal /\ duel.clickB = NoVal
         THEN [duel EXCEPT !.winner = "A", !.phase = "finished",
                           !.finishedAt = IF @ = NoVal THEN t ELSE @]
    ELSE IF duel.clickB /= NoVal /\ duel.clickA = NoVal
         THEN [duel EXCEPT !.winner = "B", !.phase = "finished",
                           !.finishedAt = IF @ = NoVal THEN t ELSE @]
    ELSE duel

\* The three time-driven transitions, in the order every reader applies them.
Transitions(duel, t, randomDelay) ==
    finalizeIfOverdueInternal(
        advancePhase(maybeStartFromReadyRoom(duel, t, randomDelay), t), t)

\* Variant (the earlier duelStore.ts): getDuel saves on every read.
changedOnEveryRead(duel, t, randomDelay) == TRUE

\* getDuel's `changed`: the disjunction of the three return values.
TransitionsChanged(duel, t, randomDelay) ==
    LET d1 == maybeStartFromReadyRoom(duel, t, randomDelay)
        d2 == advancePhase(d1, t)
        d3 == finalizeIfOverdueInternal(d2, t)
    IN  startedFromReadyRoom(duel, t) \/ d2 /= d1 \/ d3 /= d2

(* ------------------------------ mutators ------------------------------- *)
(* Each mutator of updateDuelWithRetry: the record after it ran, and the   *)
(* error it threw ("" when it returned).                                   *)

Ok(duel) == [err |-> "", d |-> duel]
\* Variant: the mutator's error is lost and its record is written.
ThrowSwallowed(e, duel) == [err |-> "", d |-> duel]

Throw(e, duel) == [err |-> e, d |-> duel]

joinMutator(d, joinedBy, paySigB, t) ==
    IF d.joinedBy /= "" THEN Throw("DUEL_ALREADY_JOINED", d)
    ELSE IF d.createdBy = joinedBy THEN Throw("CANNOT_JOIN_OWN_DUEL", d)
    ELSE IF ~d.paidA THEN Throw("CREATOR_NOT_PAID", d)
    ELSE IF d.phase /= "lobby" THEN Throw("DUEL_NOT_JOINABLE", d)
    ELSE Ok([d EXCEPT !.joinedBy = joinedBy, !.paidB = TRUE, !.paySigB = paySigB,
                      !.readyA = FALSE, !.readyB = FALSE,
                      !.readyDeadlineAt = t + readyWindowMs])

\* setReady without the test that the caller is one of the two players.
setReadyAnyCaller(d, pubkey, t, randomDelay) ==
    IF d.joinedBy = "" THEN Throw("DUEL_NOT_JOINED", d)
    ELSE IF isFinishedPhase(d.phase) THEN Ok(d)
    ELSE IF d.phase /= "lobby" THEN Ok(d)
    ELSE LET d1 == IF pubkey = d.createdBy THEN [d EXCEPT !.readyA = TRUE]
                   ELSE [d EXCEPT !.readyB = TRUE]
             d2 == [d1 EXCEPT !.readyDeadlineAt =
                        IF @ = NoVal THEN t + readyWindowMs ELSE @]
         IN  Ok(IF d2.readyA /\ d2.readyB THEN startNow(d2, t, randomDelay) ELSE d2)

\* setReady without its returns for a finished or started match.
setReadyAnyPhase(d, pubkey, t, randomDelay) ==
    IF d.joinedBy = "" THEN Throw("DUEL_NOT_JOINED", d)
    ELSE IF pubkey /= d.createdBy /\ pubkey /= d.joinedBy THEN Throw("NOT_A_PLAYER", d)
    ELSE LET d1 == IF pubkey = d.createdBy THEN [d EXCEPT !.readyA = TRUE]
                   ELSE [d EXCEPT !.readyB = TRUE]
             d2 == [d1 EXCEPT !.readyDeadlineAt =
                        IF @ = NoVal THEN t + readyWindowMs ELSE @]
         IN  Ok(IF d2.readyA /\ d2.readyB THEN startNow(d2, t, randomDelay) ELSE d2)

setReadyMutator(d, pubkey, t, randomDelay) ==
    IF d.joinedBy = "" THEN Throw("DUEL_NOT_JOINED", d)
    ELSE IF isFinishedPhase(d.phase) THEN Ok(d)
    ELSE IF d.phase /= "lobby" THEN Ok(d)
    ELSE IF pubkey /= d.createdBy /\ pubkey /= d.joinedBy THEN Throw("NOT_A_PLAYER", d)
    ELSE LET d1 == IF pubkey = d.createdBy THEN [d EXCEPT !.readyA = TRUE]
                   ELSE [d EXCEPT !.readyB = TRUE]
             d2 == [d1 EXCEPT !.readyDeadlineAt =
                        IF @ = NoVal THEN t + readyWindowMs ELSE @]
         IN  Ok(IF d2.readyA /\ d2.readyB THEN startNow(d2, t, randomDelay) ELSE d2)

Other(who) == IF who = "A" THEN "B" ELSE "A"

\* Variant: a false start that hands the match to the clicker.
falseStartSelfWins(d, who, t) ==
    [d EXCEPT !.falseA = IF who = "A" THEN TRUE ELSE @,
              !.falseB = IF who = "A" THEN @ ELSE TRUE,
              !.winner = who,
              !.phase = "finished",
              !.finishedAt = t]

\* A false start: the clicker's flag, the opponent as winner, finished at t.
falseStart(d, who, t) ==
    [d EXCEPT !.falseA = IF who = "A" THEN TRUE ELSE @,
              !.falseB = IF who = "A" THEN @ ELSE TRUE,
              !.winner = Other(who),
              !.phase = "finished",
              !.finishedAt = t]

\* Variant: equal reaction times go to B.
winnerOfClicksStrict(clickA, clickB) == IF clickA < clickB THEN "A" ELSE "B"

\* The winner when both reaction times are present.
winnerOfClicks(clickA, clickB) == IF clickA <= clickB THEN "A" ELSE "B"

\* Lines 467-486: record the reaction time, arm the finalize deadline, decide.
recordClick(d, who, reactionMs, t) ==
    IF (who = "A" /\ d.clickA /= NoVal) \/ (who = "B" /\ d.clickB /= NoVal) THEN d
    ELSE LET d1 == IF who = "A" THEN [d EXCEPT !.clickA = reactionMs]
                   ELSE [d EXCEPT !.clickB = reactionMs]
             d2 == IF ~Truthy(d1.firstClickAt)
                   THEN [d1 EXCEPT !.firstClickAt = t,
                                   !.finalizeAt = t + finalizeWindowMs]
                   ELSE d1
         IN  IF d2.clickA /= NoVal /\ d2.clickB /= NoVal
             THEN [d2 EXCEPT !.winner = winnerOfClicks(d2.clickA, d2.clickB),
                             !.phase = "finished", !.finishedAt = t]
             ELSE [d2 EXCEPT !.phase = "go"]

\* Variant (the earlier duelStore.ts): no minimum reaction time.
arbitrateNoThreshold(d, who, clickedAt, t) ==
    IF clickedAt < d.goAt THEN falseStart(d, who, t)
    ELSE recordClick(d, who, Max(0, clickedAt - d.goAt), t)

\* Lines 443-465: the arbitration of one click on an unfinished record.
arbitrate(d, who, clickedAt, t) ==
    IF clickedAt < d.goAt THEN falseStart(d, who, t)
    ELSE LET reactionMs == Max(0, clickedAt - d.goAt)
         IN  IF reactionMs < minReactionMs THEN falseStart(d, who, t)
             ELSE recordClick(d, who, reactionMs, t)

applyClickMutator(d, who, clickedAt, t) ==
    IF d.joinedBy = "" THEN Throw("DUEL_NOT_JOINED", d)
    ELSE IF ~Truthy(d.revealAt) \/ ~Truthy(d.goAt) THEN Throw("DUEL_NOT_STARTED", d)
    ELSE IF ~d.paidA \/ ~d.paidB THEN Throw("NOT_PAID", d)
    ELSE IF isFinishedPhase(d.phase) THEN Ok(d)
    ELSE LET d1 == finalizeIfOverdueInternal(advancePhase(d, t), t)
         IN  IF isFinishedPhase(d1.phase) THEN Ok(d1)
             ELSE Ok(arbitrate(d1, who, clickedAt, t))

markPayoutMutator(d, payoutSig) ==
    IF ~isFinishedPhase(d.phase) THEN Throw("DUEL_NOT_FINISHED", d)
    ELSE IF d.payoutSig /= NoVal THEN Ok(d)
    ELSE Ok([d EXCEPT !.payoutSig = payoutSig])

(* --------------------------- handler state ----------------------------- *)

ListKeys == Accounts \cup {"recent"}

Idle ==
    [ op |-> "idle", pc |-> "idle",
      who |-> "", acct |-> "",
      serverNow |-> NoVal,  \* click route: Date.now() when the request arrived
      clickedAt |-> NoVal,  \* click route: the instant handed to applyClick
      snap |-> NoDuel,      \* the record as read (its updatedAt is `expected`)
      next |-> NoDuel,      \* the record the handler computed and will write
      t |-> NoVal,          \* the handler's now()
      i |-> 0,              \* updateDuelWithRetry's loop counter
      hk |-> 0,             \* recordHistoryIfFinished: the list being updated
      sig |-> NoVal,        \* payout route: the signature of its transfer
      sent |-> 0,           \* payout route: transfers this request broadcast
      lockAcquired |-> FALSE,
      locked |-> FALSE,     \* response carries locked: true
      ret |-> NoDuel,       \* the duel of the response
      err |-> "" ]          \* the error of the response

PaySigOf(acct) == IF acct = Alice THEN "payA" ELSE IF acct = Bob THEN "payB" ELSE "payE"

\* Variant: the click path keeps the default number of attempts.
maxRetriesDefaultOnly(op) == defaultMaxRetries

maxRetries(op) == IF op = "click" THEN clickMaxRetries ELSE defaultMaxRetries

\* The locals of updateDuelWithRetry, getDuel and the click route go out of
\* scope once the store function has returned its duel.
Forget(hp) ==
    [hp EXCEPT !.snap = NoDuel, !.t = NoVal, !.i = 0,
               !.serverNow = NoVal, !.clickedAt = NoVal]

\* The response is ready; the handler has nothing left to do but answer.
Done(hp, duel, e) ==
    [Forget(hp) EXCEPT !.pc = "done", !.ret = duel, !.err = e,
                       !.next = NoDuel, !.hk = 0]

\* Variant: the route answers without running its finally block.
LeaveWithoutFinally(hp, duel, e) == Done(hp, duel, e)

\* The payout route's try/catch/finally: a return or throw after the lock was
\* acquired still runs the finally block before the response leaves.
Leave(hp, duel, e) ==
    IF hp.op = "settle" /\ hp.lockAcquired
    THEN [Forget(hp) EXCEPT !.pc = "s_unlock", !.ret = duel, !.err = e]
    ELSE Done(hp, duel, e)

\* Variant: the re-read record's receipt is not looked at.
SettleCheckNoReceipt(hp, duel) ==
    IF duel = NoDuel THEN Leave(hp, NoDuel, "DUEL_NOT_FOUND")
    ELSE IF duel.phase /= "finished" THEN Leave(hp, NoDuel, "DUEL_NOT_FINISHED")
    ELSE IF duel.winner = "" THEN Leave(hp, NoDuel, "NO_WINNER")
    ELSE IF (IF duel.winner = "A" THEN duel.createdBy ELSE duel.joinedBy) = ""
         THEN Leave(hp, NoDuel, "WINNER_WALLET_MISSING")
    ELSE [Forget(hp) EXCEPT !.pc = "s_send", !.ret = duel, !.next = NoDuel]

\* Variant: the re-read record's phase is not looked at.
SettleCheckAnyPhase(hp, duel) ==
    IF duel = NoDuel THEN Leave(hp, NoDuel, "DUEL_NOT_FOUND")
    ELSE IF duel.winner = "" THEN Leave(hp, NoDuel, "NO_WINNER")
    ELSE IF duel.payoutSig /= NoVal THEN Leave(hp, duel, "")
    ELSE IF (IF duel.winner = "A" THEN duel.createdBy ELSE duel.joinedBy) = ""
         THEN Leave(hp, NoDuel, "WINNER_WALLET_MISSING")
    ELSE [Forget(hp) EXCEPT !.pc = "s_send", !.ret = duel, !.next = NoDuel]

\* Payout route, lines 165-181: the checks on the record re-read under the lock.
SettleCheck(hp, duel) ==
    IF duel = NoDuel THEN Leave(hp, NoDuel, "DUEL_NOT_FOUND")
    ELSE IF duel.phase /= "finished" THEN Leave(hp, NoDuel, "DUEL_NOT_FINISHED")
    ELSE IF duel.winner = "" THEN Leave(hp, NoDuel, "NO_WINNER")
    ELSE IF duel.payoutSig /= NoVal THEN Leave(hp, duel, "")
    ELSE IF (IF duel.winner = "A" THEN duel.createdBy ELSE duel.joinedBy) = ""
         THEN Leave(hp, NoDuel, "WINNER_WALLET_MISSING")
    ELSE [Forget(hp) EXCEPT !.pc = "s_send", !.ret = duel, !.next = NoDuel]

\* Variant: the listing looks at the phase only.
openFilterPhaseOnly(d) == d /= NoDuel /\ d.phase = "lobby"

\* listOpenDuels, line 506: the records the listing keeps.
openFilter(d) == d /= NoDuel /\ d.phase = "lobby" /\ d.joinedBy = "" /\ d.paidA

\* Variant: a request that did not get the lock runs the payout checks too.
AfterGetDuelIgnoringLock(hp, duel) ==
    CASE hp.op = "settle" -> SettleCheck(hp, duel)
      [] hp.op = "list" -> Done(hp, IF openFilter(duel) THEN duel ELSE NoDuel, "")
      [] OTHER -> Done(hp, duel, IF duel = NoDuel THEN "DUEL_NOT_FOUND" ELSE "")

\* Where a caller of getDuel continues once getDuel has returned `duel`.
AfterGetDuel(hp, duel) ==
    CASE hp.op = "settle" /\ hp.locked -> Done(hp, duel, "")
      [] hp.op = "settle" -> SettleCheck(hp, duel)
      [] hp.op = "list" -> Done(hp, IF openFilter(duel) THEN duel ELSE NoDuel, "")
      [] OTHER -> Done(hp, duel, IF duel = NoDuel THEN "DUEL_NOT_FOUND" ELSE "")

\* Where a caller of recordHistoryIfFinished continues.
AfterHistory(hp, duel) ==
    IF hp.op = "click" THEN Done(hp, duel, "") ELSE AfterGetDuel(hp, duel)

\* recordHistoryIfFinished up to its first Redis call (lines 400-404).
EnterHistory(hp, duel) ==
    IF ~isFinishedPhase(duel.phase) \/ duel.historyRecorded
    THEN AfterHistory(hp, duel)
    ELSE [Forget(hp) EXCEPT !.pc = "h_lrem", !.hk = 1,
                            !.next = [duel EXCEPT !.historyRecorded = TRUE]]

\* getDuel's tail (lines 265-270) and applyClick's (line 493).
FinishOrHistory(hp, duel) ==
    IF isFinishedPhase(duel.phase) THEN EnterHistory(hp, duel)
    ELSE AfterHistory(hp, duel)

\* Where a caller of updateDuelWithRetry continues after a successful CAS.
AfterUpdate(hp, duel) ==
    CASE hp.op = "join" -> [Forget(hp) EXCEPT !.pc = "j_zrem", !.ret = duel,
                                              !.next = NoDuel]
      [] hp.op = "ready" -> Done(hp, duel, "")
      [] hp.op = "click" -> FinishOrHistory(hp, duel)
      [] hp.op = "settle" -> [Forget(hp) EXCEPT !.pc = "s_postonce", !.ret = duel,
                                                !.next = NoDuel]
      [] OTHER -> Done(hp, duel, "")

\* The mutator a request runs inside updateDuelWithRetry.
Mutator(hp, d, t, randomDelay) ==
    CASE hp.op = "join" -> joinMutator(d, hp.acct, PaySigOf(hp.acct), t)
      [] hp.op = "ready" -> setReadyMutator(d, hp.acct, t, randomDelay)
      [] hp.op = "click" -> applyClickMutator(d, hp.who, hp.clickedAt, t)
      [] hp.op = "settle" -> markPayoutMutator(d, hp.sig)
      [] OTHER -> Ok(d)

(* ------------------------------ the store ------------------------------ *)

\* redis SET duel:<ID>: an unconditional write.
PlainSet(duel) == store' = duel

\* The Lua script of casSaveDuel: 1 when the stored updatedAt equals `expected`.
casMatches(expected) == store /= NoDuel /\ store.updatedAt = expected

(* ------------------------------ requests ------------------------------- *)

Accept(p, hp) ==
    /\ h[p].pc = "idle"
    /\ h' = [h EXCEPT ![p] = hp]
    /\ UNCHANGED <<store, clock, lockUntil, postedKey, openZ, lists,
                   transfers, nTicks>>

\* Only the handler moves.
Local(p, hp) ==
    /\ h' = [h EXCEPT ![p] = hp]
    /\ UNCHANGED <<store, clock, lockUntil, postedKey, openZ, lists,
                   transfers, nOps, nTicks>>

StartCreate(p) ==
    \E acct \in {Alice} :
        Accept(p, [Idle EXCEPT !.op = "create", !.pc = "c_read", !.acct = acct])

StartJoin(p) ==
    \E acct \in {Alice, Bob} :
        Accept(p, [Idle EXCEPT !.op = "join", !.pc = "u_read", !.acct = acct])

StartReady(p) ==
    \E acct \in Accounts :
        Accept(p, [Idle EXCEPT !.op = "ready", !.pc = "u_read", !.acct = acct])

\* What a client may send as clickedAt, relative to the goAt it has polled:
\* a click before go and a plausible reaction.
ClickOffsets == {-10, 150}

\* NoVal stands for a request whose clickedAt is missing or not a finite number.
ClientClicks ==
    {NoVal} \cup
    (IF store /= NoDuel /\ store.goAt /= NoVal
     THEN {store.goAt + o : o \in ClickOffsets} ELSE {})

\* Click route, lines 17-24: a finite client clickedAt is passed on as it is.
clickedAtOf(clientAt, serverNow) == IF clientAt /= NoVal THEN clientAt ELSE serverNow

StartClick(p) ==
    \E who \in {"A", "B"}, clientAt \in ClientClicks :
        Accept(p, [Idle EXCEPT !.op = "click", !.pc = "u_read", !.who = who,
                               !.serverNow = clock,
                               !.clickedAt = clickedAtOf(clientAt, clock)])

StartFetch(p) ==
    Accept(p, [Idle EXCEPT !.op = "fetch", !.pc = "g_read"])

\* The open-list route: limit from the query string, clamped to 1..50.
RawLimits == {0, 1, 50, 99}

clampLimit(limit) == Max(1, Min(maxListLimit, limit))

StartList(p) ==
    Accept(p, [Idle EXCEPT !.op = "list", !.pc = "l_range"])

StartSettle(p) ==
    Accept(p, [Idle EXCEPT !.op = "settle", !.pc = "s_lock"])

Respond(p) ==
    /\ h[p].pc = "done"
    /\ Local(p, Idle)

(* ------------------------------- create -------------------------------- *)

CRead(p) ==
    /\ h[p].pc = "c_read"
    /\ \E stake \in Stakes, fee \in Fees :
        Local(p, IF store /= NoDuel
                 THEN Done(h[p], NoDuel, "DUEL_ALREADY_EXISTS")
                 ELSE [h[p] EXCEPT !.pc = "c_set",
                         !.next = NewDuel(h[p].acct, stake, fee,
                                          PaySigOf(h[p].acct), clock)])

CSet(p) ==
    /\ h[p].pc = "c_set"
    /\ PlainSet(h[p].next)
    /\ h' = [h EXCEPT ![p].pc = "c_zadd"]
    /\ UNCHANGED <<clock, lockUntil, postedKey, openZ, lists,
                   transfers, nOps, nTicks>>

CZadd(p) ==
    /\ h[p].pc = "c_zadd"
    /\ openZ' = openZ \cup {DuelId}
    /\ h' = [h EXCEPT ![p] = Done(h[p], h[p].next, "")]
    /\ UNCHANGED <<store, clock, lockUntil, postedKey, lists,
                   transfers, nOps, nTicks>>

(* ------------------------- updateDuelWithRetry ------------------------- *)

URead(p) ==
    /\ h[p].pc = "u_read"
    /\ Local(p, IF store = NoDuel
                THEN Leave(h[p], NoDuel, "DUEL_NOT_FOUND")
                ELSE [h[p] EXCEPT !.pc = "u_compute", !.snap = store])

\* Lines 288-297 up to the EVAL call: transitions, mutator, the new stamp.
UCompute(p) ==
    /\ h[p].pc = "u_compute"
    /\ \E randomDelay \in RandomDelays :
        LET t == clock
            m == Mutator(h[p], Transitions(h[p].snap, t, randomDelay), t, randomDelay)
        IN  Local(p, IF m.err /= ""
                     THEN Leave([h[p] EXCEPT !.t = t], NoDuel, m.err)
                     ELSE [h[p] EXCEPT !.pc = "u_cas", !.t = t,
                             !.next = [m.d EXCEPT !.updatedAt = clock]])

UCas(p) ==
    /\ h[p].pc = "u_cas"
    /\ IF casMatches(h[p].snap.updatedAt)
       THEN /\ PlainSet(h[p].next)
            /\ h' = [h EXCEPT ![p] = AfterUpdate(h[p], h[p].next)]
       ELSE /\ h' = [h EXCEPT ![p] =
                        IF h[p].i + 1 < maxRetries(h[p].op)
                        THEN [h[p] EXCEPT !.pc = "u_read", !.i = @ + 1,
                                          !.snap = NoDuel, !.next = NoDuel]
                        ELSE Leave(h[p], NoDuel, "RETRY_LIMIT")]
            /\ UNCHANGED store
    /\ UNCHANGED <<clock, lockUntil, postedKey, openZ, lists,
                   transfers, nOps, nTicks>>

\* joinDuel's best-effort ZREM, after which the join route calls getDuel.
JZrem(p) ==
    /\ h[p].pc = "j_zrem"
    /\ openZ' = openZ \ {DuelId}
    /\ h' = [h EXCEPT ![p] = [h[p] EXCEPT !.pc = "g_read"]]
    /\ UNCHANGED <<store, clock, lockUntil, postedKey, lists,
                   transfers, nOps, nTicks>>

(* ---------------------------- listOpenDuels ---------------------------- *)

\* duels:open newest first; with one id it has one entry or none.
openIndex == IF DuelId \in openZ THEN <<DuelId>> ELSE <<>>

\* ZREVRANGE key start stop: positions from 0, both ends included.
zrevrange(index, start, stop) ==
    SubSeq(index, start + 1, Min(Len(index), stop + 1))

\* Line 500: the ids the listing will examine.
idsFor(limit) == zrevrange(openIndex, 0, Max(0, limit - 1))

\* Lines 500-501, then getDuel for the id (the record it returns is filtered
\* where getDuel hands it back).
LRange(p) ==
    /\ h[p].pc = "l_range"
    /\ \E raw \in RawLimits :
        Local(p, IF idsFor(clampLimit(raw)) = <<>>
                 THEN Done(h[p], NoDuel, "")
                 ELSE [h[p] EXCEPT !.pc = "g_read"])

(* ------------------------------- getDuel ------------------------------- *)

GRead(p) ==
    /\ h[p].pc = "g_read"
    /\ Local(p, IF store = NoDuel
                THEN AfterGetDuel(h[p], NoDuel)
                ELSE [h[p] EXCEPT !.pc = "g_compute", !.snap = store])

GCompute(p) ==
    /\ h[p].pc = "g_compute"
    /\ \E randomDelay \in RandomDelays :
        LET t == clock
            d == Transitions(h[p].snap, t, randomDelay)
        IN  Local(p, IF TransitionsChanged(h[p].snap, t, randomDelay)
                     THEN [h[p] EXCEPT !.pc = "g_cas", !.t = t,
                             !.next = [d EXCEPT !.updatedAt = clock]]
                     ELSE FinishOrHistory([h[p] EXCEPT !.t = t], d))

GCas(p) ==
    /\ h[p].pc = "g_cas"
    /\ IF casMatches(h[p].snap.updatedAt)
       THEN /\ PlainSet(h[p].next)
            /\ h' = [h EXCEPT ![p] = FinishOrHistory(h[p], h[p].next)]
       ELSE /\ h' = [h EXCEPT ![p].pc = "g_reread"]
            /\ UNCHANGED store
    /\ UNCHANGED <<clock, lockUntil, postedKey, openZ, lists,
                   transfers, nOps, nTicks>>

\* Line 261: on a lost CAS the newest stored value is returned as it is.
GReread(p) ==
    /\ h[p].pc = "g_reread"
    /\ Local(p, AfterGetDuel(h[p], store))

(* ----------------------- recordHistoryIfFinished ----------------------- *)

\* The list the hk-th block of recordHistoryIfFinished works on.
HistKey(hp) ==
    CASE hp.hk = 1 -> hp.next.createdBy
      [] hp.hk = 2 -> hp.next.joinedBy
      [] OTHER -> "recent"

HistKeep(hp) == IF hp.hk = 3 THEN recentKeep ELSE historyKeep

\* LREM key 0 id: every occurrence of id leaves the list.
RECURSIVE lrem(_, _)
lrem(list, id) ==
    IF list = <<>> THEN <<>>
    ELSE IF Head(list) = id THEN lrem(Tail(list), id)
    ELSE <<Head(list)>> \o lrem(Tail(list), id)

lpush(list, id) == <<id>> \o list

\* LTRIM key 0 stop: positions 0..stop are kept.
ltrim(list, stop) == SubSeq(list, 1, IF Len(list) < stop + 1 THEN Len(list) ELSE stop + 1)

ListStep(p, pcNow, pcNext, newList) ==
    /\ h[p].pc = pcNow
    /\ lists' = [lists EXCEPT ![HistKey(h[p])] = newList]
    /\ h' = [h EXCEPT ![p].pc = pcNext]
    /\ UNCHANGED <<store, clock, lockUntil, postedKey, openZ,
                   transfers, nOps, nTicks>>

HLrem(p) == ListStep(p, "h_lrem", "h_lpush", lrem(lists[HistKey(h[p])], DuelId))

HLpush(p) == ListStep(p, "h_lpush", "h_ltrim", lpush(lists[HistKey(h[p])], DuelId))

\* After the last LTRIM the record is stamped (line 423) and the SET is issued.
HLtrim(p) ==
    /\ h[p].pc = "h_ltrim"
    /\ lists' = [lists EXCEPT ![HistKey(h[p])] = ltrim(@, HistKeep(h[p]))]
    /\ h' = [h EXCEPT ![p] =
                CASE h[p].hk = 1 /\ h[p].next.joinedBy /= "" ->
                        [h[p] EXCEPT !.pc = "h_lrem", !.hk = 2]
                  [] h[p].hk \in {1, 2} ->
                        [h[p] EXCEPT !.pc = "h_lrem", !.hk = 3]
                  [] OTHER ->
                        [h[p] EXCEPT !.pc = "h_set", !.next.updatedAt = clock]]
    /\ UNCHANGED <<store, clock, lockUntil, postedKey, openZ,
                   transfers, nOps, nTicks>>

\* Line 424: the history flag is written back with a plain SET, no CAS.
HSet(p) ==
    /\ h[p].pc = "h_set"
    /\ PlainSet(h[p].next)
    /\ h' = [h EXCEPT ![p] = AfterHistory(h[p], h[p].next)]
    /\ UNCHANGED <<clock, lockUntil, postedKey, openZ, lists,
                   transfers, nOps, nTicks>>

(* ----------------------------- payout route ---------------------------- *)

lockFree == lockUntil = NoVal \/ clock >= lockUntil

\* SET duel:payout_lock:<ID> 1 NX PX 60000
SLock(p) ==
    /\ h[p].pc = "s_lock"
    /\ IF lockFree
       THEN /\ lockUntil' = clock + lockTtlMs
            /\ h' = [h EXCEPT ![p] = [h[p] EXCEPT !.pc = "g_read",
                                                  !.lockAcquired = TRUE]]
       ELSE /\ lockUntil' = lockUntil
            /\ h' = [h EXCEPT ![p] = [h[p] EXCEPT !.pc = "g_read",
                                                  !.locked = TRUE]]
    /\ UNCHANGED <<store, clock, postedKey, openZ, lists, transfers,
                   nOps, nTicks>>

winnerWallet(duel) == IF duel.winner = "A" THEN duel.createdBy ELSE duel.joinedBy

potLamports(duel) == netStakeFor(duel.stakeLamports, duel.feeBps) * 2

\* Lines 187-205: the transfer is built from the re-read record and broadcast.
SSend(p) ==
    /\ h[p].pc = "s_send"
    /\ transfers' = Append(transfers, [to |-> winnerWallet(h[p].ret),
                                       lamports |-> potLamports(h[p].ret)])
    /\ h' = [h EXCEPT ![p] = [h[p] EXCEPT !.pc = "s_confirm",
                                          !.sig = Len(transfers) + 1,
                                          !.sent = @ + 1]]
    /\ UNCHANGED <<store, clock, lockUntil, postedKey, openZ, lists,
                   nOps, nTicks>>

\* Line 206 confirmed; line 209 calls markPayout, an updateDuelWithRetry.
SConfirm(p) ==
    /\ h[p].pc = "s_confirm"
    /\ Local(p, [h[p] EXCEPT !.pc = "u_read"])

\* SET duel:solarena_posted:<ID> 1 NX PX 7d
SPostOnce(p) ==
    /\ h[p].pc = "s_postonce"
    /\ postedKey' = TRUE
    /\ h' = [h EXCEPT ![p].pc = IF postedKey THEN "s_unlock" ELSE "s_post"]
    /\ UNCHANGED <<store, clock, lockUntil, openZ, lists, transfers,
                   nOps, nTicks>>

\* The same SET failing: redis() throws (line 71) and nothing around line 213
\* catches it before the route's own catch, which answers 500.
SPostOnceFails(p) ==
    /\ h[p].pc = "s_postonce"
    /\ Local(p, Leave(h[p], NoDuel, "REDIS_set_FAILED"))

\* postSolarenaEvent catches and logs whatever its fetch throws (lines 93-141),
\* so a failed post continues like a delivered one.
\* The winner's event and, when there is a loser wallet, the loser's.
SPost(p) ==
    /\ h[p].pc = "s_post"
    /\ h' = [h EXCEPT ![p].pc = "s_unlock"]
    /\ UNCHANGED <<store, clock, lockUntil, postedKey, openZ, lists,
                   transfers, nOps, nTicks>>

\* finally: DEL duel:payout_lock:<ID>, whoever holds the key by now.
SUnlock(p) ==
    /\ h[p].pc = "s_unlock"
    /\ lockUntil' = IF h[p].lockAcquired THEN NoVal ELSE lockUntil
    /\ h' = [h EXCEPT ![p] = Done(h[p], h[p].ret, h[p].err)]
    /\ UNCHANGED <<store, clock, postedKey, openZ, lists, transfers,
                   nOps, nTicks>>

\* Lines 173-205 throwing (a missing setting, the RPC refusing the
\* transaction): nothing was broadcast; the route's catch answers 500.
SSendFails(p) ==
    /\ h[p].pc = "s_send"
    /\ Local(p, Leave(h[p], NoDuel, "SEND_FAILED"))

\* Line 206 throwing after the broadcast (the confirmation timed out or the
\* RPC call failed): the transaction has either landed all the same or
\* expired unprocessed.
SConfirmFails(p) ==
    /\ h[p].pc = "s_confirm"
    /\ \/ transfers' = transfers
       \/ transfers' = SubSeq(transfers, 1, Len(transfers) - 1)
    /\ h' = [h EXCEPT ![p] = Leave(h[p], NoDuel, "CONFIRM_FAILED")]
    /\ UNCHANGED <<store, clock, lockUntil, postedKey, openZ, lists,
                   nOps, nTicks>>

\* finally: the DEL throws; the empty catch swallows it and the key stays
\* until its expiry.
SUnlockFails(p) ==
    /\ h[p].pc = "s_unlock"
    /\ Local(p, Done(h[p], h[p].ret, h[p].err))

(* ------------------------------- the clock ----------------------------- *)

\* The instants the code compares now() against in the stored record's phase,
\* and the instant the lock key expires.
Thresholds ==
    (CASE store = NoDuel -> {}
       [] isFinishedPhase(store.phase) -> {}
       [] store.phase = "lobby" -> {store.readyDeadlineAt}
       [] OTHER -> {store.revealAt, store.goAt, store.goAt + minReactionMs,
                    store.finalizeAt})
    \cup {lockUntil}

\* Date.now() moves on by one millisecond.
TickMs ==
    /\ nTicks < MaxTicks
    /\ clock' = clock + 1
    /\ nTicks' = nTicks + 1
    /\ UNCHANGED <<store, lockUntil, postedKey, openZ, lists, transfers, h, nOps>>

\* Date.now() moves on to a later instant at which a comparison changes its answer.
TickTo ==
    /\ \E x \in Thresholds : x /= NoVal /\ x > clock /\ clock' = x
    /\ UNCHANGED <<store, lockUntil, postedKey, openZ, lists, transfers, h, nOps,
                   nTicks>>

(* ---------------------------- specification ---------------------------- *)

NoHandlers == [p \in Procs |-> Idle]

Quiet ==
    /\ lockUntil = NoVal
    /\ postedKey = FALSE
    /\ lists = [k \in ListKeys |-> <<>>]
    /\ transfers = <<>>
    /\ nOps = 0
    /\ nTicks = 0

Init ==
    /\ store = NoDuel
    /\ clock = 1
    /\ openZ = {}
    /\ h = NoHandlers
    /\ Quiet

\* The steps a handler can take when no other handler writes in between.
SeqStep(p) ==
    \/ CRead(p) \/ CSet(p) \/ CZadd(p)
    \/ URead(p) \/ UCompute(p) \/ UCas(p) \/ JZrem(p)
    \/ GRead(p) \/ GCompute(p) \/ GCas(p)
    \/ HLrem(p) \/ HLpush(p) \/ HLtrim(p) \/ HSet(p)
    \/ SLock(p) \/ SSend(p) \/ SConfirm(p) \/ SPostOnce(p) \/ SPostOnceFails(p) \/ SPost(p) \/ SUnlock(p)
    \/ Respond(p)

\* The whole life of a match, one request at a time: each request is answered
\* before the next one arrives, and the clock moves between requests.
Next ==
    \/ h[1].pc = "idle" /\ (TickTo \/ TickMs)
    \/ /\ \/ StartCreate(1) \/ StartJoin(1) \/ StartReady(1)
          \/ StartClick(1)
          \/ StartFetch(1) \/ StartSettle(1)
       /\ nOps' = nOps
    \/ SeqStep(1)

Spec == Init /\ [][Next]_vars

(* A round in play, handlers interleaved.  The record is the one the ready   *)
(* room stores once both players are ready: created, joined and started by   *)
(* the code above, all within the first millisecond.                         *)

Joined ==
    joinMutator(NewDuel(Alice, 100, 300, PaySigOf(Alice), 1), Bob, PaySigOf(Bob), 1).d

RoundStart(randomDelay) ==
    setReadyMutator(setReadyMutator(Joined, Alice, 1, randomDelay).d,
                    Bob, 1, randomDelay).d

InitRound ==
    /\ \E randomDelay \in {randomDelayMin} : store = RoundStart(randomDelay)
    /\ clock = 1
    /\ openZ = {}
    /\ h = NoHandlers
    /\ Quiet

Counted == nOps < MaxOps /\ nOps' = nOps + 1

NextRound ==
    \/ TickTo
    \/ \E p \in Procs :
        \/ (StartClick(p) \/ StartFetch(p)) /\ Counted
        \/ URead(p) \/ UCompute(p) \/ UCas(p)
        \/ GRead(p) \/ GCompute(p) \/ GCas(p) \/ GReread(p)
        \/ HLrem(p) \/ HLpush(p) \/ HLtrim(p) \/ HSet(p)
        \/ Respond(p)

SpecRound == InitRound /\ [][NextRound]_vars

(* A finished match about to be settled, handlers interleaved.  Player A has *)
(* just false-started: the click handler's CAS has stored the finished       *)
(* record and the handler is entering recordHistoryIfFinished.               *)

ClickHandler(randomDelay) ==
    [Idle EXCEPT !.op = "click", !.pc = "u_cas", !.who = "A",
                 !.serverNow = 1, !.clickedAt = 1,
                 !.t = 1, !.snap = RoundStart(randomDelay),
                 !.next = applyClickMutator(RoundStart(randomDelay), "A", 1, 1).d]

InitSettle ==
    /\ \E randomDelay \in {randomDelayMin} :
        /\ store = ClickHandler(randomDelay).next
        /\ h = [p \in Procs |->
                  IF p = 1 THEN AfterUpdate(ClickHandler(randomDelay),
                                            ClickHandler(randomDelay).next)
                  ELSE Idle]
    /\ clock = 1
    /\ openZ = {}
    /\ Quiet

NextSettle ==
    \/ TickMs
    \/ TickTo
    \/ \E p \in Procs :
        \/ (StartSettle(p) \/ StartFetch(p)) /\ Counted
        \/ URead(p) \/ UCompute(p) \/ UCas(p)
        \/ GRead(p) \/ GCompute(p)
        \/ HLrem(p) \/ HLpush(p) \/ HLtrim(p) \/ HSet(p)
        \/ SLock(p) \/ SSend(p) \/ SConfirm(p) \/ SPostOnce(p) \/ SPostOnceFails(p) \/ SPost(p)
        \/ SUnlock(p)
        \/ Respond(p)

SpecSettle == InitSettle /\ [][NextSettle]_vars

(* The payout of finished matches of every stake and fee rate the Create    *)
(* route accepts (it checks stake > 0 and passes feeBps through unchecked),  *)
(* one Settle request at a time.                                             *)

PotStakes == {1, 100, 333}
PotFees == {-300, 0, 300, 10000, 20000}

FinishedDuel(stake, feeBps, loser) ==
    falseStart([RoundStart(randomDelayMin) EXCEPT !.stakeLamports = stake,
                                                  !.feeBps = feeBps],
               loser, 1)

InitPot ==
    /\ \E stake \in PotStakes, feeBps \in PotFees, loser \in {"A", "B"} :
        store = FinishedDuel(stake, feeBps, loser)
    /\ clock = 1
    /\ openZ = {}
    /\ h = NoHandlers
    /\ Quiet

NextPot ==
    \/ StartSettle(1) /\ Counted
    \/ SLock(1) \/ GRead(1) \/ GCompute(1)
    \/ HLrem(1) \/ HLpush(1) \/ HLtrim(1) \/ HSet(1)
    \/ SSend(1) \/ SConfirm(1)
    \/ URead(1) \/ UCompute(1) \/ UCas(1)
    \/ SPostOnce(1) \/ SPostOnceFails(1) \/ SPost(1) \/ SUnlock(1)
    \/ Respond(1)

SpecPot == InitPot /\ [][NextPot]_vars

(* The ready room, handlers interleaved: the id is either still free or      *)
(* holds the lobby record a Create has just stored, and Create, Join,        *)
(* SetReady, Fetch and ListOpen requests arrive concurrently.                *)

InitLobby ==
    /\ \/ store = NoDuel /\ openZ = {}
       \/ store = NewDuel(Alice, 100, 300, PaySigOf(Alice), 1) /\ openZ = {DuelId}
    /\ clock = 1
    /\ h = NoHandlers
    /\ Quiet

NextLobby ==
    \/ TickTo
    \/ \E p \in Procs :
        \/ (StartCreate(p) \/ StartJoin(p) \/ StartReady(p) \/ StartFetch(p)
            \/ StartList(p)) /\ Counted
        \/ LRange(p)
        \/ CRead(p) \/ CSet(p) \/ CZadd(p)
        \/ URead(p) \/ UCompute(p) \/ UCas(p) \/ JZrem(p)
        \/ GRead(p) \/ GCompute(p) \/ GCas(p) \/ GReread(p)
        \/ Respond(p)

SpecLobby == InitLobby /\ [][NextLobby]_vars

(* One updateDuelWithRetry call against a stream of writers.  The round has   *)
(* just started; handler 1 serves one SetReady or Click request while        *)
(* handler 2 serves SetReady requests of the other player one after another, *)
(* each of which re-stamps the record, and the clock moves a millisecond at  *)
(* a time.                                                                   *)

MaxRetryTicks == 10

TickRetry ==
    /\ nTicks < MaxRetryTicks
    /\ clock' = clock + 1
    /\ nTicks' = nTicks + 1
    /\ UNCHANGED <<store, lockUntil, postedKey, openZ, lists, transfers, h, nOps>>

InitRetry ==
    /\ store = RoundStart(randomDelayMin)
    /\ clock = 1
    /\ openZ = {}
    /\ h = NoHandlers
    /\ Quiet

\* The requests of SpecRetry: the caller under study and the competing writer.
StartUpdater ==
    /\ nOps = 0 /\ nOps' = 1
    /\ \/ Accept(1, [Idle EXCEPT !.op = "ready", !.pc = "u_read", !.acct = Alice])
       \/ Accept(1, [Idle EXCEPT !.op = "click", !.pc = "u_read", !.who = "A",
                                 !.serverNow = clock,
                                 !.clickedAt = clickedAtOf(NoVal, clock)])

StartWriter ==
    /\ nOps = 1 /\ nOps' = nOps
    /\ Accept(2, [Idle EXCEPT !.op = "ready", !.pc = "u_read", !.acct = Bob])

NextRetry ==
    \/ TickRetry
    \/ StartUpdater
    \/ StartWriter
    \/ \E p \in Procs :
        \/ URead(p) \/ UCompute(p) \/ UCas(p)
        \/ HLrem(p) \/ HLpush(p) \/ HLtrim(p) \/ HSet(p)
        \/ Respond(p)

SpecRetry == InitRetry /\ [][NextRetry]_vars

(* The ready room with one player ready, handlers interleaved: the record is *)
(* the one SetReady has just stored for the creator, and SetReady and Fetch  *)
(* requests arrive concurrently while the ready deadline may pass.           *)

InitStart ==
    /\ store = setReadyMutator(Joined, Alice, 1, randomDelayMin).d
    /\ clock = 1
    /\ openZ = {}
    /\ h = NoHandlers
    /\ Quiet

NextStart ==
    \/ TickMs
    \/ TickTo
    \/ \E p \in Procs :
        \/ (StartReady(p) \/ StartFetch(p)) /\ Counted
        \/ URead(p) \/ UCompute(p) \/ UCas(p)
        \/ GRead(p) \/ GCompute(p) \/ GCas(p) \/ GReread(p)
        \/ Respond(p)

SpecStart == InitStart /\ [][NextStart]_vars

(* The payout route with its failures, handlers interleaved: the id is free, *)
(* or holds a round just started, or a match just finished by a false start, *)
(* and Settle requests arrive while the RPC and the store may fail.          *)

InitPay ==
    /\ \/ store = NoDuel
       \/ store = RoundStart(randomDelayMin)
       \/ \E loser \in {"A", "B"} : store = FinishedDuel(100, 300, loser)
    /\ clock = 1
    /\ openZ = {}
    /\ h = NoHandlers
    /\ Quiet

NextPay ==
    \/ TickTo
    \/ \E p \in Procs :
        \/ StartSettle(p) /\ Counted
        \/ SLock(p) \/ GRead(p) \/ GCompute(p) \/ GCas(p) \/ GReread(p)
        \/ HLrem(p) \/ HLpush(p) \/ HLtrim(p) \/ HSet(p)
        \/ SSend(p) \/ SSendFails(p) \/ SConfirm(p) \/ SConfirmFails(p)
        \/ URead(p) \/ UCompute(p) \/ UCas(p)
        \/ SPostOnce(p) \/ SPostOnceFails(p) \/ SPost(p)
        \/ SUnlock(p) \/ SUnlockFails(p)
        \/ Respond(p)

SpecPay == InitPay /\ [][NextPay]_vars

(* A round waiting for its second click, handlers interleaved and fairly     *)
(* scheduled: party A's reaction time has just been recorded by a Click at   *)
(* server time goAt + 150, party B never clicks, handler 1 keeps fetching    *)
(* and handler 2 keeps sending Fetch and SetReady requests.                  *)

FirstClickAt == 1 + countdownMs + randomDelayMin + 150

InitForfeit ==
    /\ store = [applyClickMutator(RoundStart(randomDelayMin), "A",
                                  FirstClickAt, FirstClickAt).d
                  EXCEPT !.updatedAt = FirstClickAt]
    /\ clock = FirstClickAt
    /\ openZ = {}
    /\ h = NoHandlers
    /\ Quiet

\* What a handler does once its request is accepted.
HandlerStep(p) ==
    \/ URead(p) \/ UCompute(p) \/ UCas(p)
    \/ GRead(p) \/ GCompute(p) \/ GCas(p) \/ GReread(p)
    \/ HLrem(p) \/ HLpush(p) \/ HLtrim(p) \/ HSet(p)
    \/ Respond(p)

\* The requests of SpecForfeit, as many as the clients care to send.
Poll(p) == StartFetch(p) /\ nOps' = nOps

Nudge ==
    /\ Accept(2, [Idle EXCEPT !.op = "ready", !.pc = "u_read", !.acct = Bob])
    /\ nOps' = nOps

NextForfeit ==
    \/ TickMs
    \/ TickTo
    \/ Nudge
    \/ \E p \in Procs : Poll(p) \/ HandlerStep(p)

SpecForfeit ==
    /\ InitForfeit /\ [][NextForfeit]_vars
    /\ WF_vars(TickTo)
    /\ WF_vars(Poll(1))
    /\ \A p \in Procs : WF_vars(HandlerStep(p))

(* ============================== properties ============================= *)

(* ------------------------------ settlement ----------------------------- *)

\* C1: however Settle requests interleave with each other, with Fetch and with
\* history recording, and whether or not the 60-second lock expires, the
\* treasury broadcasts at most one transfer for the match, and a Settle that
\* broadcast nothing and ended without error answers locked or with the receipt.
C1_PayoutAtMostOnce ==
    /\ Len(transfers) <= 1
    /\ \A p \in Procs :
        (h[p].op = "settle" /\ h[p].pc = "done" /\ h[p].sent = 0 /\ h[p].err = "")
            => (h[p].locked \/ (h[p].ret /= NoDuel /\ h[p].ret.payoutSig /= NoVal))

\* C2: once the stored record carries a payoutSig, every later stored version
\* carries the same payoutSig.
C2_PayoutSigKept ==
    [][(store /= NoDuel /\ store.payoutSig /= NoVal)
          => (store' /= NoDuel /\ store'.payoutSig = store.payoutSig)]_vars

\* C3: a Settle that holds the lock broadcasts only when the record it re-read
\* has no payoutSig; one that ends without error and without a broadcast returns
\* the stored payoutSig; and once a payoutSig is stored, no step of a later
\* request adds a transfer or changes the payoutSig.
C3_SettleReturnsReceipt ==
    /\ [](\A p \in Procs :
            (h[p].op = "settle" /\ h[p].lockAcquired) =>
                /\ h[p].pc = "s_send" => h[p].ret.payoutSig = NoVal
                /\ (h[p].pc \in {"s_unlock", "done"} /\ h[p].err = "" /\ h[p].sent = 0)
                      => /\ h[p].ret /= NoDuel
                         /\ h[p].ret.payoutSig /= NoVal
                         /\ h[p].ret.payoutSig = store.payoutSig)
    /\ [][(store /= NoDuel /\ store.payoutSig /= NoVal)
            => /\ transfers' = transfers
               /\ store' /= NoDuel
               /\ store'.payoutSig = store.payoutSig]_vars

\* A second Settle has answered with the receipt of the one transfer.
C3_Witness ==
    \E p \in Procs :
        /\ h[p].op = "settle" /\ h[p].pc = "done" /\ h[p].lockAcquired
        /\ h[p].err = "" /\ h[p].sent = 0
        /\ h[p].ret /= NoDuel /\ h[p].ret.payoutSig = 1
        /\ Len(transfers) = 1

(* ----------------------------- the record ------------------------------ *)

\* C4: in every stored version of the record, winner is set exactly when the
\* phase is finished.
C4_WinnerIffFinished ==
    store /= NoDuel => ((store.winner /= "") <=> (store.phase = "finished"))

\* The forfeit has been stored: A clicked, B never did, A is the winner.
C4_Witness ==
    /\ store /= NoDuel
    /\ store.phase = "finished" /\ store.winner = "A"
    /\ store.clickA /= NoVal /\ store.clickB = NoVal

\* C5: when two handlers hold the same version of the record and one of them
\* has its CAS write accepted, the stored version no longer equals the version
\* the other one expects, so the other write cannot take effect as well.
C5_OneCasWriterWins ==
    [][\A p, q \in Procs :
          (/\ p /= q
           /\ h[p].pc \in {"u_cas", "g_cas"}
           /\ h[q].pc \in {"u_cas", "g_cas"}
           /\ h[p].snap = h[q].snap
           /\ casMatches(h[p].snap.updatedAt)
           /\ h'[p] /= h[p])
          => ~(store' /= NoDuel /\ store'.updatedAt = h[q].snap.updatedAt)]_vars

(* ------------------------------- clicks -------------------------------- *)

\* C6: the record a click handler is about to store is the one the stored
\* record, the party and the server's own clock readings determine: it equals
\* what the request would store had the client sent no clickedAt.
C6_ClickIgnoresClientTime ==
    \A p \in Procs :
        (h[p].op = "click" /\ h[p].pc = "u_cas") =>
            \E randomDelay \in RandomDelays :
                h[p].next =
                    [applyClickMutator(Transitions(h[p].snap, h[p].t, randomDelay),
                                       h[p].who, h[p].serverNow, h[p].t).d
                        EXCEPT !.updatedAt = h[p].t]

\* C7: a click arbitrated on a started, unfinished record with a click instant
\* before goAt yields the clicker's false-start flag, the opponent as winner,
\* phase finished, finishedAt set, and leaves the clicker's reaction time as it was.
C7_EarlyClickIsFalseStart ==
    \A p \in Procs :
        LET hp == h[p]
            d0 == Transitions(hp.snap, hp.t, randomDelayMin)
        IN  (/\ hp.op = "click" /\ hp.pc = "u_cas"
             /\ ~isFinishedPhase(d0.phase)
             /\ hp.clickedAt < d0.goAt)
            => /\ IF hp.who = "A" THEN hp.next.falseA ELSE hp.next.falseB
               /\ hp.next.winner = (IF hp.who = "A" THEN "B" ELSE "A")
               /\ hp.next.phase = "finished"
               /\ hp.next.finishedAt = hp.t
               /\ IF hp.who = "A" THEN hp.next.clickA = d0.clickA
                  ELSE hp.next.clickB = d0.clickB

\* B clicked before go: the handler is about to store B's false start.
C7_Witness ==
    \E p \in Procs :
        /\ h[p].op = "click" /\ h[p].pc = "u_cas" /\ h[p].who = "B"
        /\ ~isFinishedPhase(h[p].snap.phase)
        /\ h[p].clickedAt < h[p].snap.goAt
        /\ h[p].next.falseB /\ h[p].next.winner = "A"

\* C8: a click arbitrated on a started, unfinished record whose reaction time
\* max(0, click instant - goAt) is below 120 ms is resolved as a false start,
\* and no stored record holds a reaction time below 120.
C8_TooFastIsFalseStart ==
    /\ \A p \in Procs :
        LET hp == h[p]
            d0 == Transitions(hp.snap, hp.t, randomDelayMin)
        IN  (/\ hp.op = "click" /\ hp.pc = "u_cas"
             /\ ~isFinishedPhase(d0.phase)
             /\ Max(0, hp.clickedAt - d0.goAt) < 120)
            => /\ IF hp.who = "A" THEN hp.next.falseA ELSE hp.next.falseB
               /\ hp.next.winner = (IF hp.who = "A" THEN "B" ELSE "A")
               /\ hp.next.phase = "finished"
               /\ IF hp.who = "A" THEN hp.next.clickA = d0.clickA
                  ELSE hp.next.clickB = d0.clickB
    /\ store /= NoDuel =>
        /\ store.clickA = NoVal \/ store.clickA >= 120
        /\ store.clickB = NoVal \/ store.clickB >= 120

\* A clicked at go or less than 120 ms after it: the handler is about to store
\* A's false start and no reaction time.
C8_Witness ==
    \E p \in Procs :
        /\ h[p].op = "click" /\ h[p].pc = "u_cas" /\ h[p].who = "A"
        /\ ~isFinishedPhase(h[p].snap.phase)
        /\ h[p].clickedAt >= h[p].snap.goAt
        /\ h[p].clickedAt - h[p].snap.goAt < 120
        /\ h[p].next.falseA /\ h[p].next.winner = "B" /\ h[p].next.clickA = NoVal

\* C9: when both reaction times are stored, the record is finished and the
\* winner is A if clickA <= clickB and B otherwise.
C9_LowerTimeWins ==
    (store /= NoDuel /\ store.clickA /= NoVal /\ store.clickB /= NoVal)
        => /\ store.phase = "finished"
           /\ store.winner = (IF store.clickA <= store.clickB THEN "A" ELSE "B")

\* Both parties have the same reaction time stored and A has won.
C9_Witness ==
    /\ store /= NoDuel
    /\ store.clickA /= NoVal /\ store.clickA = store.clickB
    /\ store.winner = "A"

\* C10: for an unfinished record with exactly one reaction time, any request
\* that reads it at a server time t >= finalizeAt goes on to write that party
\* as winner with phase finished; and a record with no reaction time is left
\* as it is by the timeout path at any later time.
C10_AnyReadForfeits ==
    /\ [][\A p \in Procs :
            (/\ h[p].pc \in {"u_compute", "g_compute"}
             /\ h'[p] /= h[p]
             /\ ~isFinishedPhase(h[p].snap.phase)
             /\ (h[p].snap.clickA = NoVal) /= (h[p].snap.clickB = NoVal)
             /\ Truthy(h[p].snap.finalizeAt)
             /\ clock >= h[p].snap.finalizeAt)
            => /\ h'[p].pc \in {"u_cas", "g_cas"}
               /\ h'[p].next.phase = "finished"
               /\ h'[p].next.winner = (IF h[p].snap.clickA /= NoVal THEN "A" ELSE "B")]_vars
    /\ [](store /= NoDuel /\ store.clickA = NoVal /\ store.clickB = NoVal
            => \A later \in {0, 5000, 60000} :
                 finalizeIfOverdueInternal(store, clock + later) = store)

\* C10 as the code has it: Fetch, SetReady, ApplyClick and Settle reading such a
\* record at t >= finalizeAt go on to write that party as winner with phase
\* finished (Join throws DUEL_ALREADY_JOINED before it writes); and a record
\* with no reaction time is left as it is by the timeout path at any later time.
C10_ReadForfeits ==
    /\ [][\A p \in Procs :
            (/\ h[p].pc \in {"u_compute", "g_compute"}
             /\ h[p].op \in {"fetch", "ready", "click", "settle"}
             /\ h'[p] /= h[p]
             /\ ~isFinishedPhase(h[p].snap.phase)
             /\ (h[p].snap.clickA = NoVal) /= (h[p].snap.clickB = NoVal)
             /\ Truthy(h[p].snap.finalizeAt)
             /\ clock >= h[p].snap.finalizeAt)
            => /\ h'[p].pc \in {"u_cas", "g_cas"}
               /\ h'[p].next.phase = "finished"
               /\ h'[p].next.winner = (IF h[p].snap.clickA /= NoVal THEN "A" ELSE "B")]_vars
    /\ [](store /= NoDuel /\ store.clickA = NoVal /\ store.clickB = NoVal
            => \A later \in {0, 5000, 60000} :
                 finalizeIfOverdueInternal(store, clock + later) = store)

\* A Fetch read the one-click record at its deadline and is about to store the forfeit.
C10_Witness ==
    \E p \in Procs :
        /\ h[p].op = "fetch" /\ h[p].pc = "g_cas"
        /\ ~isFinishedPhase(h[p].snap.phase)
        /\ h[p].snap.clickB /= NoVal /\ h[p].snap.clickA = NoVal
        /\ h[p].t = h[p].snap.finalizeAt
        /\ h[p].next.phase = "finished" /\ h[p].next.winner = "B"

(* --------------------------- repeated requests ------------------------- *)

\* C11: once party X has a reaction time recorded in an unfinished round, a
\* further click by X, whatever its click instant, is about to store a record
\* with the same reaction time for X, the same false-start flags, the same
\* winner and the same phase.
C11_RepeatClickIsNoOp ==
    \A p \in Procs :
        (/\ h[p].op = "click" /\ h[p].pc = "u_cas"
         /\ ~isFinishedPhase(h[p].snap.phase)
         /\ (IF h[p].who = "A" THEN h[p].snap.clickA ELSE h[p].snap.clickB) /= NoVal)
        => /\ h[p].next.clickA = h[p].snap.clickA
           /\ h[p].next.clickB = h[p].snap.clickB
           /\ h[p].next.falseA = h[p].snap.falseA
           /\ h[p].next.falseB = h[p].snap.falseB
           /\ h[p].next.winner = h[p].snap.winner
           /\ h[p].next.phase = h[p].snap.phase

\* The step on which a SetReady or ApplyClick request that read a finished
\* record has its write accepted.
FinishedRewrite(p) ==
    /\ h[p].op \in {"ready", "click"} /\ h[p].pc = "u_cas"
    /\ isFinishedPhase(h[p].snap.phase)
    /\ h'[p].pc /= "u_cas" /\ h'[p].pc /= "u_read"

Outcome(d) == <<d.winner, d.clickA, d.clickB, d.falseA, d.falseB, d.finishedAt>>

\* C13: once the stored record is finished, its winner, both reaction times,
\* both false-start flags and finishedAt are the same in every later stored
\* version, whatever operations follow.
C13_OutcomeFrozen ==
    [][(store /= NoDuel /\ isFinishedPhase(store.phase))
       => (store' /= NoDuel /\ isFinishedPhase(store'.phase)
           /\ Outcome(store') = Outcome(store))]_vars

(* ------------------------------ ready room ----------------------------- *)

\* C14: Create never overwrites an existing match record: when Create's write
\* happens no record is stored under the id, and a stored record that has been
\* joined is never replaced by an unjoined one.
C14_CreateNeverOverwrites ==
    [][/\ \A p \in Procs :
            (h[p].pc = "c_set" /\ h'[p].pc = "c_zadd") => store = NoDuel
       /\ (store /= NoDuel /\ store.joinedBy /= "")
            => (store' /= NoDuel /\ store'.joinedBy /= "")]_vars

\* C15: the opponent is set at most once: a Join's write is accepted only on
\* a record that has no opponent yet, and once the stored record has an
\* opponent its joinedBy and paySigB never change.
C15_OpponentSetOnce ==
    [][/\ \A p \in Procs :
            (h[p].op = "join" /\ h[p].pc = "u_cas" /\ h'[p].pc = "j_zrem")
                => store.joinedBy = ""
       /\ (store /= NoDuel /\ store.joinedBy /= "")
            => /\ store' /= NoDuel
               /\ store'.joinedBy = store.joinedBy
               /\ store'.paySigB = store.paySigB]_vars

\* A SetReady request from an account that is neither player of the joined
\* record it has read, at the step that runs the transitions and the mutator.
OutsiderReady(p) ==
    /\ h[p].op = "ready" /\ h[p].pc = "u_compute"
    /\ h[p].snap.joinedBy /= ""
    /\ h[p].acct /= h[p].snap.createdBy /\ h[p].acct /= h[p].snap.joinedBy
    /\ h'[p] /= h[p]

\* C16: for a joined match, SetReady by an account that is neither the creator
\* nor the opponent fails with NOT_A_PLAYER, whatever the phase.
C16_OutsiderAlwaysRejected ==
    [][\A p \in Procs :
         OutsiderReady(p) => h'[p].pc = "done" /\ h'[p].err = "NOT_A_PLAYER"]_vars

\* C16 (amended): such a SetReady fails with NOT_A_PLAYER, writing nothing,
\* when the record is in phase lobby after the time transitions; on a record
\* that has left the lobby it fails with no error and goes on to write the
\* record back.  In neither case does it set a ready flag.
C16_OutsiderRejectedInLobby ==
    [][\A p \in Procs :
         /\ OutsiderReady(p)
            => IF h[p].snap.phase = "lobby" /\ ~startedFromReadyRoom(h[p].snap, clock)
               THEN h'[p].pc = "done" /\ h'[p].err = "NOT_A_PLAYER" /\ store' = store
               ELSE /\ h'[p].pc = "u_cas" /\ h'[p].err = ""
                    /\ h'[p].next.readyA = h[p].snap.readyA
                    /\ h'[p].next.readyB = h[p].snap.readyB
         /\ (/\ h[p].op = "ready" /\ h'[p] /= h[p] /\ store /= NoDuel
             /\ h[p].acct /= store.createdBy /\ h[p].acct /= store.joinedBy)
            => (store'.readyA = store.readyA /\ store'.readyB = store.readyB)]_vars

\* An outsider's SetReady on a joined lobby record has been refused.
C16_Witness ==
    /\ store /= NoDuel /\ store.joinedBy = Bob /\ store.phase = "lobby"
    /\ h[1].op = "ready" /\ h[1].acct = Eve
    /\ h[1].pc = "done" /\ h[1].err = "NOT_A_PLAYER"

\* A request that has read a joined, paid lobby record whose players are not
\* both ready, at or after the ready deadline, at the step that runs the time
\* transitions.
ReadsPastReadyDeadline(p) ==
    /\ h[p].pc \in {"u_compute", "g_compute"}
    /\ readyRoomOpen(h[p].snap)
    /\ ~(h[p].snap.readyA /\ h[p].snap.readyB)
    /\ h[p].snap.readyDeadlineAt /= NoVal
    /\ clock >= h[p].snap.readyDeadlineAt
    /\ h'[p] /= h[p]

\* The only ways a stored record leaves the lobby.
StartsOnlyFromReadyRoom ==
    (store /= NoDuel /\ store.phase = "lobby" /\ store' /= NoDuel
     /\ store'.phase /= "lobby")
    => /\ store.joinedBy /= ""
       /\ Truthy(store'.revealAt)
       /\ \/ store'.readyA /\ store'.readyB
          \/ store.readyDeadlineAt /= NoVal /\ clock >= store.readyDeadlineAt

PhaseConsistent(d, t) ==
    \/ d = NoDuel
    \/ isFinishedPhase(d.phase)
    \/ /\ (Truthy(d.revealAt) /\ Truthy(d.goAt))
          => /\ d.phase = "countdown" => t < d.revealAt
             /\ d.phase = "waiting_random" => (d.revealAt <= t /\ t < d.goAt)
             /\ t >= d.goAt => d.phase = "go"
       /\ (readyRoomOpen(d) /\ d.readyDeadlineAt /= NoVal) => t < d.readyDeadlineAt
       /\ (Truthy(d.finalizeAt) /\ t >= d.finalizeAt)
          => ((d.clickA = NoVal) = (d.clickB = NoVal))

\* The step on which getDuel hands its result to the Fetch route, and the
\* clock reading t that handler took.
FetchReturns(p) ==
    /\ h[p].op = "fetch"
    /\ h[p].pc \in {"g_compute", "g_cas", "g_reread"}
    /\ h'[p].pc = "done"

FetchTime(p) == IF h[p].pc = "g_compute" THEN clock ELSE h[p].t

\* C18: the record a Fetch handled at server time t returns has a phase
\* consistent with t, also when another handler writes the record concurrently.
C18_FetchPhaseConsistent ==
    [][\A p \in Procs :
         FetchReturns(p) => PhaseConsistent(h'[p].ret, FetchTime(p))]_vars

(* -------------------------------- Settle ------------------------------- *)

\* A Settle request whose SET NX was refused.
Refused(p) == h[p].op = "settle" /\ h[p].locked

\* C19: a Settle request that does not acquire the lock sends no transfer,
\* writes no receipt, does not delete the lock, and answers without error with
\* the record getDuel gave it and locked = true.
C19_RefusedSettleOnlyReads ==
    /\ [](\A p \in Procs :
            Refused(p)
            => /\ ~h[p].lockAcquired /\ h[p].sent = 0 /\ h[p].sig = NoVal
               /\ h[p].pc \in {"g_read", "g_compute", "g_cas", "g_reread",
                               "h_lrem", "h_lpush", "h_ltrim", "h_set", "done"}
               /\ h[p].pc = "done" => h[p].err = "")
    /\ [][\A p \in Procs :
            (Refused(p) /\ h'[p] /= h[p])
            => /\ transfers' = transfers
               /\ lockUntil' = lockUntil
               /\ store'.payoutSig \in {store.payoutSig, NoVal}
               /\ (h[p].pc = "g_compute" /\ h'[p].pc = "done")
                  => h'[p].ret = h[p].snap /\ h'[p].locked
               /\ (h[p].pc = "h_set" /\ h'[p].pc = "done")
                  => h'[p].ret = store' /\ h'[p].locked]_vars

\* A Settle refused the lock has answered while the lock is still held.
C19_Witness ==
    \E p \in Procs :
        /\ Refused(p) /\ h[p].pc = "done" /\ h[p].err = ""
        /\ h[p].ret /= NoDuel
        /\ lockUntil /= NoVal /\ clock < lockUntil

\* The step on which the lock holder's getDuel returns and the route has
\* looked at the record (lines 164-181).
SettleChecked(p) ==
    /\ h[p].op = "settle" /\ h[p].lockAcquired
    /\ h[p].pc \in {"g_read", "g_compute", "g_cas", "g_reread", "h_set"}
    /\ h'[p].pc \in {"s_unlock", "s_send"}

\* C20: Settle sends a transfer only if the record it re-read under the lock is
\* finished, has a winner and has no payoutSig; a missing record gives
\* NOT_FOUND, an unfinished one NOT_FINISHED, one without winner NO_WINNER, each
\* without a transfer.  With one request at a time the re-read record is the
\* stored one.
C20_SettleChecksBeforeSending ==
    /\ [](\A p \in Procs :
            /\ h[p].pc = "s_send"
               => /\ h[p].ret /= NoDuel /\ h[p].ret.phase = "finished"
                  /\ h[p].ret.winner /= "" /\ h[p].ret.payoutSig = NoVal
            /\ h[p].err \in {"DUEL_NOT_FOUND", "DUEL_NOT_FINISHED", "NO_WINNER"}
               => h[p].sent = 0)
    /\ [][/\ transfers' /= transfers
             => \E p \in Procs : h[p].op = "settle" /\ h[p].pc = "s_send"
          /\ \A p \in Procs :
               SettleChecked(p)
               => /\ transfers' = transfers
                  /\ IF store' = NoDuel
                       THEN h'[p].pc = "s_unlock" /\ h'[p].err = "DUEL_NOT_FOUND"
                     ELSE IF store'.phase /= "finished"
                       THEN h'[p].pc = "s_unlock" /\ h'[p].err = "DUEL_NOT_FINISHED"
                     ELSE IF store'.winner = ""
                       THEN h'[p].pc = "s_unlock" /\ h'[p].err = "NO_WINNER"
                     ELSE IF store'.payoutSig /= NoVal
                       THEN h'[p].pc = "s_unlock" /\ h'[p].err = ""
                     ELSE h'[p].pc = "s_send" /\ h'[p].ret = store']_vars

\* A Settle on an unfinished match has been refused under the lock, nothing sent.
C20_Witness ==
    /\ h[1].op = "settle" /\ h[1].lockAcquired /\ h[1].pc = "s_unlock"
    /\ h[1].err = "DUEL_NOT_FINISHED" /\ h[1].sent = 0
    /\ store /= NoDuel /\ store.joinedBy /= "" /\ transfers = <<>>

(* -------------------------------- payout ------------------------------- *)

\* The transfer a step has just broadcast.
Sent == transfers'[Len(transfers')]

\* The account of the stored record's winner.
WinnerAccount == IF store.winner = "A" THEN store.createdBy ELSE store.joinedBy

C22_NotifyFailureNotSurfaced ==
    [][\A p \in Procs :
         (h[p].op = "settle" /\ h[p].pc \in {"s_postonce", "s_post"}
          /\ h'[p] /= h[p])
         => /\ h'[p].err = ""
            /\ h'[p].ret /= NoDuel
            /\ h'[p].ret.payoutSig /= NoVal]_vars

(* ------------------------------- ListOpen ------------------------------ *)

Writes(p) ==
    /\ \/ h[p].pc \in {"u_cas", "g_cas"} /\ casMatches(h[p].snap.updatedAt)
       \/ h[p].pc \in {"h_set", "c_set"}
    /\ h'[p] /= h[p]

\* C24: each successful write stores an updatedAt strictly greater than the
\* updatedAt of the version it replaces, also within one clock millisecond.
C24_StampStrictlyIncreases ==
    [][\A p \in Procs :
         (Writes(p) /\ store /= NoDuel) => store'.updatedAt > store.updatedAt]_vars

\* The record the writing handler p based its write on: its snapshot, or, for
\* the history write-back, the record it holds without the history mark.
BasedOn(p) ==
    IF h[p].pc = "h_set" THEN [h[p].next EXCEPT !.historyRecorded = FALSE]
    ELSE h[p].snap

\* Two records alike in everything but the stamp and the history mark.
SameContent(a, b) ==
    /\ a /= NoDuel /\ b /= NoDuel
    /\ [a EXCEPT !.updatedAt = 0, !.historyRecorded = FALSE]
         = [b EXCEPT !.updatedAt = 0, !.historyRecorded = FALSE]

\* C25: every write that replaces an existing record takes effect only if the
\* stored record is still the one the writer read: no handler overwrites a
\* record that another handler changed after the first handler's read.
C25_NoBlindOverwrite ==
    [][\A p \in Procs :
         (Writes(p) /\ store /= NoDuel) => SameContent(store, BasedOn(p))]_vars

(* --------------------------- concurrent clicks ------------------------- *)

\* A click handler whose click is no false start has its CAS accepted.
ValidClickStored(p) ==
    /\ h[p].op = "click" /\ h[p].pc = "u_cas"
    /\ h[p].clickedAt >= h[p].snap.goAt + minReactionMs
    /\ casMatches(h[p].snap.updatedAt)
    /\ h'[p] /= h[p]

\* C26: when A and B each send a valid click concurrently, the stored record
\* ends up with both reaction times and the winner computed from both: the
\* accepted write of one click keeps the reaction time the other has stored,
\* and with both present the record is finished with the faster party winning.
C26_BothClicksKept ==
    [][\A p \in Procs :
         ValidClickStored(p)
         => /\ store.clickA /= NoVal => store'.clickA = store.clickA
            /\ store.clickB /= NoVal => store'.clickB = store.clickB
            /\ (store'.clickA /= NoVal /\ store'.clickB /= NoVal)
               => /\ store'.phase = "finished"
                  /\ store'.winner
                       = (IF store'.clickA <= store'.clickB THEN "A" ELSE "B")]_vars

(* ------------------------- updateDuelWithRetry ------------------------- *)

\* The errors a mutator throws about the state of the record.
StateConflicts ==
    {"DUEL_ALREADY_JOINED", "CANNOT_JOIN_OWN_DUEL", "CREATOR_NOT_PAID",
     "DUEL_NOT_JOINABLE", "DUEL_NOT_JOINED", "NOT_A_PLAYER", "DUEL_NOT_STARTED",
     "NOT_PAID", "DUEL_NOT_FINISHED"}

\* C27: a state-conflict error raised by the mutator of Join, SetReady,
\* ApplyClick or markPayout ends the operation at once: it is not retried, it
\* issues no write, and no step of the call up to and after the error changes
\* the stored record.  A Join on a joined record and a SetReady or ApplyClick
\* on an unjoined one do raise their error.
C27_ConflictWritesNothing ==
    /\ [](\A p \in Procs :
            h[p].err \in StateConflicts => h[p].pc \in {"done", "s_unlock"})
    /\ [][\A p \in Procs :
            /\ (h[p].pc = "u_compute" /\ h'[p].err \in StateConflicts)
               => /\ h'[p].pc \in {"done", "s_unlock"}
                  /\ h'[p].next = NoDuel
                  /\ store' = store
            /\ (h'[p] /= h[p]
                /\ (h[p].pc \in {"u_read", "u_compute"}
                    \/ h[p].err \in StateConflicts))
               => store' = store
            /\ (h[p].op = "join" /\ h[p].pc = "u_compute"
                /\ h[p].snap.joinedBy /= "" /\ h'[p] /= h[p])
               => h'[p].err = "DUEL_ALREADY_JOINED"
            /\ (h[p].op \in {"ready", "click"} /\ h[p].pc = "u_compute"
                /\ h[p].snap.joinedBy = "" /\ h'[p] /= h[p])
               => h'[p].err = "DUEL_NOT_JOINED"]_vars

\* A second Join has been refused and the first opponent is still stored.
C27_Witness ==
    /\ h[1].op = "join" /\ h[1].pc = "done" /\ h[1].err = "DUEL_ALREADY_JOINED"
    /\ h[1].acct = Alice
    /\ store /= NoDuel /\ store.joinedBy = Bob /\ store.phase = "lobby"

(* ------------------------------- retries ------------------------------- *)

\* The handler is inside updateDuelWithRetry's loop.
InRetryLoop(p) == h[p].pc \in {"u_read", "u_compute", "u_cas"}

\* The awaited calls a call of updateDuelWithRetry can still make: three per
\* attempt not yet begun (read, compute, CAS), plus the rest of the current one.
StepsLeft(hp) ==
    3 * (maxRetries(hp.op) - hp.i)
    - (CASE hp.pc = "u_read" -> 0 [] hp.pc = "u_compute" -> 1 [] OTHER -> 2)

\* C28: updateDuelWithRetry always terminates.  The loop counter stays below
\* the limit (8, or 10 for ApplyClick), so at most that many read-and-CAS
\* attempts are made; a conflicting CAS writes nothing and starts the next
\* attempt, or after the last one fails with RETRY_LIMIT; a CAS that succeeds
\* ends the loop at once; no other step of the loop writes; and every step of
\* a call inside the loop lowers the positive count of steps it can still
\* make, so the call leaves the loop after at most three steps per attempt.
C28_RetryLoopBounded ==
    /\ [](\A p \in Procs : InRetryLoop(p) =>
            /\ h[p].i < (IF h[p].op = "click" THEN clickMaxRetries ELSE defaultMaxRetries)
            /\ StepsLeft(h[p]) > 0)
    /\ [][\A p \in Procs :
            /\ (h[p].pc = "u_cas" /\ casMatches(h[p].snap.updatedAt) /\ h'[p] /= h[p])
               => ~InRetryLoop(p)' /\ h'[p].err = "" /\ store' = h[p].next
            /\ (h[p].pc = "u_cas" /\ ~casMatches(h[p].snap.updatedAt) /\ h'[p] /= h[p])
               => /\ store' = store
                  /\ IF h[p].i + 1 < (IF h[p].op = "click" THEN clickMaxRetries
                                      ELSE defaultMaxRetries)
                     THEN h'[p].pc = "u_read" /\ h'[p].i = h[p].i + 1
                     ELSE h'[p].pc = "done" /\ h'[p].err = "RETRY_LIMIT"
            /\ (h[p].pc \in {"u_read", "u_compute"} /\ h'[p] /= h[p])
               => store' = store /\ h'[p].i = (IF InRetryLoop(p)' THEN h[p].i ELSE 0)
            /\ (h'[p].err = "RETRY_LIMIT" /\ h[p].err /= "RETRY_LIMIT")
               => h[p].pc = "u_cas" /\ store' = store
            /\ (InRetryLoop(p) /\ InRetryLoop(p)' /\ h'[p] /= h[p])
               => StepsLeft(h'[p]) < StepsLeft(h[p])]_vars

C28_Witness ==
    /\ h[1].op = "click" /\ h[1].pc = "done" /\ h[1].err = "RETRY_LIMIT"
    /\ store.phase = "countdown" /\ store.updatedAt = clickMaxRetries + 1

(* --------------------------- record invariants ------------------------- *)

\* C29: in every stored version of the match record, no party has both a
\* recorded reaction time and a true false-start flag.
C29_ClickAndFalseStartExclusive ==
    store /= NoDuel =>
        /\ ~(store.clickA /= NoVal /\ store.falseA)
        /\ ~(store.clickB /= NoVal /\ store.falseB)

\* The place of a phase in the order lobby < countdown < waiting_random < go < finished.
PhaseRank(phase) ==
    CASE phase = "lobby" -> 0
      [] phase = "countdown" -> 1
      [] phase = "waiting_random" -> 2
      [] phase = "go" -> 3
      [] OTHER -> 4

\* C30: from one stored version of the match record to the next the phase
\* never moves backwards in the order lobby < countdown < waiting_random < go
\* < finished; in particular a finished record stays finished.
C30_PhaseNeverMovesBack ==
    [][(store /= NoDuel /\ store' /= NoDuel)
         => PhaseRank(store'.phase) >= PhaseRank(store.phase)]_vars

(* ----------------------------- round start ----------------------------- *)

\* C31: once a stored record is past the lobby, every later stored version
\* has the same revealAt and goAt: of several round starts computed
\* concurrently, one is persisted and the others are discarded.
C31_RoundStartPersistedOnce ==
    [][(store /= NoDuel /\ store.phase /= "lobby" /\ store' /= NoDuel)
         => store'.revealAt = store.revealAt /\ store'.goAt = store.goAt]_vars

\* The record is as startNow leaves it, apart from the two instants.
FreshRound(d) ==
    /\ d.phase = "countdown"
    /\ d.goAt - d.revealAt >= randomDelayMin
    /\ d.goAt - d.revealAt <= randomDelayMin + randomDelaySpan
    /\ d.revealAt < d.goAt
    /\ d.clickA = NoVal /\ d.clickB = NoVal
    /\ ~d.falseA /\ ~d.falseB
    /\ d.winner = ""
    /\ d.finishedAt = NoVal /\ d.firstClickAt = NoVal /\ d.finalizeAt = NoVal

C33_FinalizeArmedOnce ==
    /\ [](store /= NoDuel =>
            /\ (store.finalizeAt /= NoVal) = (store.clickA /= NoVal \/ store.clickB /= NoVal)
            /\ (store.finalizeAt /= NoVal) = (store.firstClickAt /= NoVal)
            /\ store.finalizeAt /= NoVal => store.finalizeAt = store.firstClickAt + finalizeWindowMs)
    /\ [][(store /= NoDuel /\ store' /= NoDuel) =>
            /\ store.finalizeAt /= NoVal
               => store'.finalizeAt = store.finalizeAt /\ store'.firstClickAt = store.firstClickAt
            /\ (store.finalizeAt = NoVal /\ store'.finalizeAt /= NoVal)
               => \E p \in Procs :
                    /\ h[p].op = "click" /\ h[p].pc = "u_cas" /\ h'[p] /= h[p]
                    /\ store'.firstClickAt = h[p].t]_vars

(* ------------------------------ payout lock ---------------------------- *)

\* C34: a Settle handler that acquired the lock reaches its response only
\* through the delete of the lock key, whatever it returns or throws; the
\* delete removes the key, or fails without changing the response, and a key
\* that was left behind is gone once its 60 seconds have passed.
C34_LockReleasedOnEveryExit ==
    /\ [](lockUntil /= NoVal => lockUntil <= clock + lockTtlMs)
    /\ [][\A p \in Procs :
            /\ (h[p].lockAcquired /\ h[p].pc /= "done" /\ h'[p].pc = "done")
               => /\ h[p].pc = "s_unlock"
                  /\ lockUntil' = NoVal \/ lockUntil' = lockUntil
                  /\ h'[p].err = h[p].err /\ h'[p].ret = h[p].ret
            /\ (h[p].lockAcquired /\ h'[p].lockAcquired /\ h'[p].pc = "idle")
               => h[p].pc = "done"]_vars

C34_Witness ==
    /\ h[1].op = "settle" /\ h[1].lockAcquired /\ h[1].pc = "done"
    /\ h[1].err = "CONFIRM_FAILED" /\ lockUntil = NoVal

\* The errors of a Settle attempt that failed while sending or confirming.
TransferFailures == {"SEND_FAILED", "CONFIRM_FAILED"}

\* C35: when the only Settle attempt so far has failed while sending or
\* confirming the transfer, no transfer has taken effect and the stored record
\* has no receipt; and a Settle that then pays leaves exactly one transfer.
C35_FailedSettleLeavesUnpaid ==
    \A p \in Procs :
        /\ (nOps = 1 /\ h[p].pc \in {"s_unlock", "done"} /\ h[p].err \in TransferFailures)
           => transfers = <<>> /\ store.payoutSig = NoVal
        /\ (h[p].op = "settle" /\ h[p].pc = "done" /\ h[p].err = "" /\ h[p].sent = 1)
           => Len(transfers) = 1

(* ------------------------------ history lists -------------------------- *)

\* No handler is inside recordHistoryIfFinished.
HistoryAtRest == \A p \in Procs : h[p].pc \notin {"h_lrem", "h_lpush", "h_ltrim"}

NoDuplicates(list) ==
    \A i, j \in 1..Len(list) : list[i] = list[j] => i = j

\* C36: whenever no handler is in the middle of recording, each per-account
\* history list holds at most 10 ids and the recent list at most 50, and no
\* id appears twice in a list, also after two handlers have recorded the same
\* finished match concurrently.
C36_HistoryListsBoundedNoDuplicates ==
    HistoryAtRest =>
        \A k \in ListKeys :
            /\ Len(lists[k]) <= (IF k = "recent" THEN recentKeep ELSE historyKeep) + 1
            /\ NoDuplicates(lists[k])

(* -------------------------------- forfeit ------------------------------ *)

\* C37: with the clock advancing, the record being fetched again and again
\* and every handler scheduled fairly, a match in which one party has a
\* recorded reaction time reaches phase finished, although the other party
\* never clicks and readers lose CAS races.
C37_OverdueRoundFinishes ==
    (store.clickA /= NoVal /\ store.clickB = NoVal) ~> (store.phase = "finished")

C37_Witness ==
    /\ store.phase = "finished" /\ store.winner = "A" /\ store.clickB = NoVal
    /\ store.finishedAt = FirstClickAt + finalizeWindowMs
    /\ h[2].op = "fetch" /\ h[2].pc = "g_reread"

(* --------------------------------- pot --------------------------------- *)

\* C38: for every stake and fee rate the create route lets through, every
\* transfer Settle broadcasts is at least 0 and at most twice the stake.
C38_PotWithinDeposits ==
    \A i \in 1..Len(transfers) :
        /\ transfers[i].lamports >= 0
        /\ transfers[i].lamports <= 2 * store.stakeLamports

(* ---------------------------- lock ownership --------------------------- *)

\* The handler has acquired the lock and has not yet issued its delete.
HoldsLock(p) == h[p].op = "settle" /\ h[p].lockAcquired /\ h[p].pc \notin {"done", "idle"}

\* C39: at most one Settle handler is between acquiring the lock and
\* releasing it, and a delete that removes the lock key is issued while no
\* other handler holds the lock, also when a holder outlives the 60 seconds.
C39_OneLockHolder ==
    /\ [](\A p, q \in Procs : HoldsLock(p) /\ HoldsLock(q) => p = q)
    /\ [][\A p \in Procs :
            (h[p].pc = "s_unlock" /\ h'[p] /= h[p] /\ lockUntil /= NoVal /\ lockUntil' = NoVal)
            => \A q \in Procs \ {p} : ~HoldsLock(q)]_vars

(* -------------------------------- polling ------------------------------ *)

\* No time-driven transition changes the record at server time t.
NoTransitionDue(d, t) == \A randomDelay \in RandomDelays : Transitions(d, t, randomDelay) = d

\* C40: a Fetch that reads an unfinished record for which no time-driven
\* transition is due answers with that record without writing: the stored
\* record and its updatedAt stay as they were, and a concurrent mutating
\* handler whose CAS would have matched before the Fetch's step still matches
\* after it.
C40_IdleFetchWritesNothing ==
    [][\A p \in Procs :
        /\ (h[p].op = "fetch" /\ h[p].pc = "g_read" /\ h'[p] /= h[p]) => store' = store
        /\ (/\ h[p].op = "fetch" /\ h[p].pc = "g_compute" /\ h'[p] /= h[p]
            /\ ~isFinishedPhase(h[p].snap.phase)
            /\ NoTransitionDue(h[p].snap, clock))
           => /\ store' = store
              /\ h'[p].pc = "done" /\ h'[p].err = "" /\ h'[p].ret = h[p].snap
              /\ \A q \in Procs \ {p} :
                    (h[q].pc = "u_cas" /\ casMatches(h[q].snap.updatedAt))
                    => (h'[q] = h[q] /\ store'.updatedAt = h[q].snap.updatedAt)]_vars

C40_Witness ==
    /\ h[1].op = "fetch" /\ h[1].pc = "done" /\ h[1].ret = store
    /\ store.phase = "countdown" /\ NoTransitionDue(store, clock)
    /\ h[2].op = "click" /\ h[2].pc = "u_cas" /\ casMatches(h[2].snap.updatedAt)
====
